---- MODULE Spec2Model ----
(***************************************************************************)
(* Model of the s3_file target of zen-target-s3 (src/s3_file.go): the      *)
(* deploy and remove scripts built by S3FileConfig.GetTargets, and          *)
(* loadAwsConfig.  Strings are sequences of one-character strings, so that *)
(* strings.HasPrefix, strings.TrimPrefix and filepath.Join are computed.    *)
(***************************************************************************)
EXTENDS Integers, Sequences, FiniteSets, TLC

\* ------------------------------------------------------------------ bounds
MaxFiles == 2
MaxN == 2
MirrorFiles == 2
MaxCalls == 2

\* fc.MaxParallel defaults to 10 when it is nil (s3_file.go:41)
DefaultMaxParallel == 10

\* ----------------------------------------------------------------- strings
HasPrefix(s, p) == Len(s) >= Len(p) /\ SubSeq(s, 1, Len(p)) = p

TrimPrefix(s, p) == IF HasPrefix(s, p) THEN SubSeq(s, Len(p) + 1, Len(s)) ELSE s

\* "zen_bucket="
ZenBucketEq == <<"z","e","n","_","b","u","c","k","e","t","=">>

\* "zen_bucket_prefix="
ZenBucketPrefixEq == <<"z","e","n","_","b","u","c","k","e","t","_","p","r","e","f","i","x","=">>

\* "zen_prefix="
ZenPrefixEq == <<"z","e","n","_","p","r","e","f","i","x","=">>

\* ---------------------------------------------------------- path/filepath
\* the elements of a path between its separators, empty elements included
RECURSIVE SplitSlash(_)
SplitSlash(s) ==
    IF \A i \in 1..Len(s) : s[i] # "/" THEN <<s>>
    ELSE LET k == CHOOSE i \in 1..Len(s) :
                      s[i] = "/" /\ \A j \in 1..(i - 1) : s[j] # "/"
         IN <<SubSeq(s, 1, k - 1)>> \o SplitSlash(SubSeq(s, k + 1, Len(s)))

RECURSIVE JoinSlash(_)
JoinSlash(elems) ==
    IF elems = <<>> THEN <<>>
    ELSE IF Len(elems) = 1 THEN elems[1]
    ELSE elems[1] \o <<"/">> \o JoinSlash(Tail(elems))

\* filepath.Clean's element pass: drop "" and ".", resolve ".."
RECURSIVE CleanElems(_, _, _)
CleanElems(elems, acc, rooted) ==
    IF elems = <<>> THEN acc
    ELSE LET e == Head(elems)
             rest == Tail(elems)
         IN IF e = <<>> \/ e = <<".">> THEN CleanElems(rest, acc, rooted)
            ELSE IF e = <<".", ".">>
                 THEN IF acc # <<>> /\ acc[Len(acc)] # <<".", ".">>
                      THEN CleanElems(rest, SubSeq(acc, 1, Len(acc) - 1), rooted)
                      ELSE IF rooted THEN CleanElems(rest, acc, rooted)
                      ELSE CleanElems(rest, Append(acc, e), rooted)
            ELSE CleanElems(rest, Append(acc, e), rooted)

Clean(path) ==
    IF path = <<>> THEN <<".">>
    ELSE LET rooted == path[1] = "/"
             body == JoinSlash(CleanElems(SplitSlash(path), <<>>, rooted))
         IN IF rooted THEN <<"/">> \o body
            ELSE IF body = <<>> THEN <<".">> ELSE body

\* filepath.Join(a, b): empty elements are ignored, the rest joined and cleaned
Join(a, b) ==
    IF a = <<>> /\ b = <<>> THEN <<>>
    ELSE IF a = <<>> THEN Clean(b)
    ELSE IF b = <<>> THEN Clean(a)
    ELSE Clean(a \o <<"/">> \o b)


\* ------------------------------------------------------------------ inputs
Ops == {"deploy", "remove"}

\* target.Cwd and the i-th path of target.Outs, a file directly under it
Cwd == <<"/", "w">>

OutPath(i) == Cwd \o <<"/">> \o [j \in 1..i |-> "f"]

\* the labels a user may put on the target (fc.Labels)
LabelChoices ==
    { <<>>,
      << ZenPrefixEq \o <<"u", "$">> >>,
      << ZenBucketEq \o <<"o">> >> }

BucketChoices == { <<"b", "$">> }

BucketPrefixChoices == { <<>>, <<"p", "$">> }

\* the invocation's variable context: the value of the variable "$", if set
VarChoices == { <<>>, << <<"v">> >> }

\* fc.MaxParallel is a *int: <<>> is nil, <<n>> points to n
MaxParallelChoices == { <<>> } \cup { <<n>> : n \in (-1)..MaxN }

FileStates == {"ok", "missing", "remoteErr"}

VARIABLES
    MaxParallel,    \* fc.MaxParallel
    Labels,         \* fc.Labels as configured
    Bucket,         \* fc.Bucket
    BucketPrefix,   \* fc.BucketPrefix
    Outs,           \* target.Outs
    DryRun,         \* runCtx.DryRun
    ctxVars,        \* the variable context target.Interpolate resolves against
    awsOk,          \* whether config.LoadDefaultConfig succeeds
    fileState,      \* per out: os.Open fails ("missing"), the remote call fails ("remoteErr")
    pc,             \* per op: where the Run function is
    ret,            \* per op: how Run ended: "none", "nil", "err", "exit", "panic"
    idx,            \* per op: the index of the range loop over target.Outs
    wg,             \* per op: the WaitGroup counter
    sem,            \* per op: the number of tokens in the channel sem
    wpc,            \* per op, per out: where the worker goroutine is
    wret,           \* per op, per out: what the goroutine returned
    released,       \* per op, per out: how many tokens the goroutine took back from sem
    openFiles,      \* per op: the outs whose file handle is open
    sent,           \* per op, per out: the requests sent to the store
    opens,          \* per op, per out: the number of os.Open calls
    loaded,         \* per op: bucket and prefix returned by loadAwsConfig
    envEndpoint,    \* target.EnvVars()["AWS_S3_ENDPOINT"]: <<>> when absent, else <<value>>
    client,         \* the options of the s3.Client of loadAwsConfig, <<>> before it is built
    resolved        \* the calls of customResolver so far, each with its result

inputs == <<MaxParallel, Labels, Bucket, BucketPrefix, Outs, DryRun, ctxVars, awsOk, fileState>>

vars_run == <<pc, ret, idx, wg, sem, wpc, wret, released, openFiles, sent, opens, loaded>>

resolver_vars == <<envEndpoint, client, resolved>>

vars == <<inputs, resolver_vars, vars_run>>

Files == 1..Len(Outs)

\* ------------------------------------------------------------- GetTargets
\* *fc.MaxParallel after the nil check of GetTargets
N == IF MaxParallel = <<>> THEN DefaultMaxParallel ELSE MaxParallel[1]

\* (mutant) the two labels put in front of the user's labels instead of after them
TargetLabelsPrepended ==
    << ZenBucketEq \o Bucket, ZenBucketPrefixEq \o BucketPrefix >> \o Labels

\* fc.Labels after the append, handed to the target by WithLabels
TargetLabels ==
    Labels \o << ZenBucketEq \o Bucket, ZenBucketPrefixEq \o BucketPrefix >>

\* ----------------------------------------------------------- loadAwsConfig
\* target.Interpolate: every "$" is replaced by the variable's value; a "$"
\* without a value for the variable is an error
RECURSIVE Substitute(_, _)
Substitute(s, value) ==
    IF s = <<>> THEN <<>>
    ELSE (IF Head(s) = "$" THEN value ELSE <<Head(s)>>) \o Substitute(Tail(s), value)

Interpolate(s, ctx) ==
    IF (\E i \in 1..Len(s) : s[i] = "$") /\ ctx = <<>>
    THEN [err |-> TRUE, val |-> <<>>]
    ELSE [err |-> FALSE, val |-> IF ctx = <<>> THEN s ELSE Substitute(s, ctx[1])]

\* s3.ServiceID
S3ServiceID == "S3"

\* the default endpoint of customResolver
DefaultEndpoint == "https://s3.eu-central-1.amazonaws.com"

\* the values of AWS_S3_ENDPOINT in target.EnvVars(): absent, a URL, the empty string
EndpointChoices == { <<>>, <<"http://localhost:9000">>, <<"">> }

\* the (service, region) pairs the resolver is asked for
Services == {S3ServiceID, "DynamoDB"}

Regions == {"eu-central-1", "us-east-1", ""}

\* aws.Endpoint{} with &aws.EndpointNotFoundError{}
EndpointNotFound ==
    [err |-> "EndpointNotFoundError", PartitionID |-> "", URL |-> "", SigningRegion |-> ""]

\* (mutant) the resolver without the lookup of AWS_S3_ENDPOINT
ResolverIgnoresOverride(env, service, region) ==
    IF service = S3ServiceID /\ region = "eu-central-1"
    THEN [err |-> "none", PartitionID |-> "aws", URL |-> DefaultEndpoint,
          SigningRegion |-> "eu-central-1"]
    ELSE EndpointNotFound

\* (mutant) the resolver without the test of the region
ResolverAnyRegion(env, service, region) ==
    IF service = S3ServiceID
    THEN [err |-> "none", PartitionID |-> "aws",
          URL |-> IF env # <<>> THEN env[1] ELSE DefaultEndpoint,
          SigningRegion |-> "eu-central-1"]
    ELSE EndpointNotFound

\* customResolver of loadAwsConfig
customResolver(env, service, region) ==
    LET endpoint == IF env # <<>> THEN env[1] ELSE DefaultEndpoint IN
    IF service = S3ServiceID /\ region = "eu-central-1"
    THEN [err |-> "none", PartitionID |-> "aws", URL |-> endpoint,
          SigningRegion |-> "eu-central-1"]
    ELSE EndpointNotFound

\* (mutant) the label loop with the errors of target.Interpolate dropped
RECURSIVE ScanLabelsErrDropped(_, _, _, _)
ScanLabelsErrDropped(labels, ctx, bucket, prefix) ==
    IF labels = <<>> THEN [err |-> "none", bucket |-> bucket, prefix |-> prefix]
    ELSE LET label == Head(labels) IN
         IF HasPrefix(label, ZenBucketEq)
         THEN ScanLabelsErrDropped(Tail(labels), ctx,
                                   Interpolate(TrimPrefix(label, ZenBucketEq), ctx).val, prefix)
         ELSE IF HasPrefix(label, ZenPrefixEq)
         THEN ScanLabelsErrDropped(Tail(labels), ctx, bucket,
                                   Interpolate(TrimPrefix(label, ZenPrefixEq), ctx).val)
         ELSE ScanLabelsErrDropped(Tail(labels), ctx, bucket, prefix)

\* the loop of loadAwsConfig over target.Labels
RECURSIVE ScanLabels(_, _, _, _)
ScanLabels(labels, ctx, bucket, prefix) ==
    IF labels = <<>> THEN [err |-> "none", bucket |-> bucket, prefix |-> prefix]
    ELSE LET label == Head(labels) IN
         IF HasPrefix(label, ZenBucketEq)
         THEN LET r == Interpolate(TrimPrefix(label, ZenBucketEq), ctx) IN
              IF r.err THEN [err |-> "interpolating bucket name", bucket |-> <<>>, prefix |-> <<>>]
              ELSE ScanLabels(Tail(labels), ctx, r.val, prefix)
         ELSE IF HasPrefix(label, ZenPrefixEq)
         THEN LET r == Interpolate(TrimPrefix(label, ZenPrefixEq), ctx) IN
              IF r.err THEN [err |-> "interpolating bucket key prefix", bucket |-> <<>>, prefix |-> <<>>]
              ELSE ScanLabels(Tail(labels), ctx, bucket, r.val)
         ELSE ScanLabels(Tail(labels), ctx, bucket, prefix)

loadAwsConfig(labels, ctx, cfgOk) ==
    IF ~cfgOk THEN [err |-> "loading aws config", bucket |-> <<>>, prefix |-> <<>>]
    ELSE ScanLabels(labels, ctx, <<>>, <<>>)

\* the object key of out i: filepath.Join(prefix, strings.TrimPrefix(f, target.Cwd))
Key(prefix, f) == Join(prefix, TrimPrefix(f, Cwd))


\* ------------------------------------------------------------ the Run code
Set(f, op, v) == [f EXCEPT ![op] = v]

SetAt(f, op, i, v) == [f EXCEPT ![op][i] = v]

\* the process of the invocation is still running
Alive(op) == ret[op] \notin {"exit", "panic"}

\* (mutant) a channel that takes one token more than its capacity
SemOffByOne(op) == sem[op] <= N

\* (mutant) a send on sem that never blocks, as on a channel without a capacity limit
SemNeverFull(op) == TRUE

\* sem <- struct{}{} can proceed: the channel has room
SemHasRoom(op) == sem[op] < N

\* (mutant) a wg.Wait() that does not wait for the counter
WgNotAwaited(op) == TRUE

\* wg.Wait() can proceed: the counter is zero
WgIsZero(op) == wg[op] = 0

\* (mutant) the dry-run test inverted: if runCtx.DryRun
RemoteEnabledInverted == DryRun

\* if !runCtx.DryRun
RemoteEnabled == ~DryRun

\* the request a worker sends for out i
Request(op, i) ==
    [verb |-> IF op = "deploy" THEN "PutObject" ELSE "DeleteObject",
     bucket |-> loaded[op].bucket,
     key |-> Key(loaded[op].prefix, Outs[i])]

\* client, bucket, prefix, err := loadAwsConfig(target), err == nil
LoadOk(op) ==
    LET r == loadAwsConfig(TargetLabels, ctxVars, awsOk) IN
    /\ pc[op] = "load" /\ Alive(op)
    /\ r.err = "none"
    /\ loaded' = Set(loaded, op, [bucket |-> r.bucket, prefix |-> r.prefix])
    /\ pc' = Set(pc, op, "make")
    /\ UNCHANGED <<inputs, resolver_vars, opens, ret, idx, wg, sem, wpc, wret, released, openFiles, sent>>

\* if err != nil { return err }
LoadFail(op) ==
    LET r == loadAwsConfig(TargetLabels, ctxVars, awsOk) IN
    /\ pc[op] = "load" /\ Alive(op)
    /\ r.err # "none"
    /\ pc' = Set(pc, op, "returned")
    /\ ret' = Set(ret, op, "err")
    /\ UNCHANGED <<inputs, resolver_vars, opens, idx, wg, sem, wpc, wret, released, openFiles, sent, loaded>>

\* sem := make(chan struct{}, *fc.MaxParallel)
MakeSem(op) ==
    /\ pc[op] = "make" /\ Alive(op)
    /\ N >= 0
    /\ pc' = Set(pc, op, "loop")
    /\ UNCHANGED <<inputs, resolver_vars, opens, ret, idx, wg, sem, wpc, wret, released, openFiles, sent, loaded>>

\* make(chan struct{}, n) with n < 0 panics
MakeSemPanic(op) ==
    /\ pc[op] = "make" /\ Alive(op)
    /\ N < 0
    /\ pc' = Set(pc, op, "panicked")
    /\ ret' = Set(ret, op, "panic")
    /\ UNCHANGED <<inputs, resolver_vars, opens, idx, wg, sem, wpc, wret, released, openFiles, sent, loaded>>

\* for _, out := range target.Outs { wg.Add(1)
LoopAdd(op) ==
    /\ pc[op] = "loop" /\ Alive(op)
    /\ idx[op] <= Len(Outs)
    /\ wg' = Set(wg, op, wg[op] + 1)
    /\ pc' = Set(pc, op, "acquire")
    /\ UNCHANGED <<inputs, resolver_vars, opens, ret, idx, sem, wpc, wret, released, openFiles, sent, loaded>>

\* the range loop is over
LoopEnd(op) ==
    /\ pc[op] = "loop" /\ Alive(op)
    /\ idx[op] > Len(Outs)
    /\ pc' = Set(pc, op, "wait")
    /\ UNCHANGED <<inputs, resolver_vars, opens, ret, idx, wg, sem, wpc, wret, released, openFiles, sent, loaded>>

\* sem <- struct{}{}; go func(f string) {...}(out)
Acquire(op) ==
    /\ pc[op] = "acquire" /\ Alive(op)
    /\ SemHasRoom(op)
    /\ sem' = Set(sem, op, sem[op] + 1)
    /\ wpc' = SetAt(wpc, op, idx[op], "open")
    /\ idx' = Set(idx, op, idx[op] + 1)
    /\ pc' = Set(pc, op, "loop")
    /\ UNCHANGED <<inputs, resolver_vars, opens, ret, wg, wret, released, openFiles, sent, loaded>>

\* wg.Wait(); return nil
WaitReturn(op) ==
    /\ pc[op] = "wait" /\ Alive(op)
    /\ WgIsZero(op)
    /\ pc' = Set(pc, op, "returned")
    /\ ret' = Set(ret, op, "nil")
    /\ UNCHANGED <<inputs, resolver_vars, opens, idx, wg, sem, wpc, wret, released, openFiles, sent, loaded>>

\* file, err := os.Open(f), err == nil; defer file.Close()
OpenOk(op, i) ==
    /\ wpc[op][i] = "open" /\ Alive(op)
    /\ fileState[i] # "missing"
    /\ openFiles' = Set(openFiles, op, openFiles[op] \cup {i})
    /\ wpc' = SetAt(wpc, op, i, "io")
    /\ opens' = SetAt(opens, op, i, opens[op][i] + 1)
    /\ UNCHANGED <<inputs, resolver_vars, pc, ret, idx, wg, sem, wret, released, sent, loaded>>

\* (mutant) the deploy worker going on after os.Open failed
DeployOpenFailIgnored(i) ==
    /\ wpc["deploy"][i] = "open" /\ Alive("deploy")
    /\ fileState[i] = "missing"
    /\ wpc' = SetAt(wpc, "deploy", i, "io")
    /\ opens' = SetAt(opens, "deploy", i, opens["deploy"][i] + 1)
    /\ UNCHANGED <<inputs, resolver_vars, pc, ret, idx, wg, sem, wret, released, openFiles, sent, loaded>>

\* deploy: return fmt.Errorf("failed to open file ..."); only wg.Done is deferred
DeployOpenFail(i) ==
    /\ wpc["deploy"][i] = "open" /\ Alive("deploy")
    /\ fileState[i] = "missing"
    /\ wret' = SetAt(wret, "deploy", i, "err")
    /\ wpc' = SetAt(wpc, "deploy", i, "wgdone")
    /\ opens' = SetAt(opens, "deploy", i, opens["deploy"][i] + 1)
    /\ UNCHANGED <<inputs, resolver_vars, pc, ret, idx, wg, sem, released, openFiles, sent, loaded>>

\* remove: log.Fatalf("failed to open file ...") exits the process
RemoveOpenFail(i) ==
    /\ wpc["remove"][i] = "open" /\ Alive("remove")
    /\ fileState[i] = "missing"
    /\ wret' = SetAt(wret, "remove", i, "fatal")
    /\ ret' = Set(ret, "remove", "exit")
    /\ opens' = SetAt(opens, "remove", i, opens["remove"][i] + 1)
    /\ UNCHANGED <<inputs, resolver_vars, pc, idx, wg, sem, wpc, released, openFiles, sent, loaded>>

\* runCtx.DryRun: the remote call is skipped
SkipRemote(op, i) ==
    /\ wpc[op][i] = "io" /\ Alive(op)
    /\ ~RemoteEnabled
    /\ wpc' = SetAt(wpc, op, i, "release")
    /\ UNCHANGED <<inputs, resolver_vars, opens, pc, ret, idx, wg, sem, wret, released, openFiles, sent, loaded>>

\* uploader.Upload / client.DeleteObject, err == nil
RemoteOk(op, i) ==
    /\ wpc[op][i] = "io" /\ Alive(op)
    /\ RemoteEnabled
    /\ fileState[i] # "remoteErr"
    /\ sent' = SetAt(sent, op, i, Append(sent[op][i], Request(op, i)))
    /\ wpc' = SetAt(wpc, op, i, "release")
    /\ UNCHANGED <<inputs, resolver_vars, opens, pc, ret, idx, wg, sem, wret, released, openFiles, loaded>>

\* (mutant) the deploy worker trying the upload again after it failed
DeployUploadRetried(i) ==
    /\ wpc["deploy"][i] = "io" /\ Alive("deploy")
    /\ RemoteEnabled
    /\ fileState[i] = "remoteErr"
    /\ sent' = SetAt(sent, "deploy", i, Append(sent["deploy"][i], Request("deploy", i)))
    /\ UNCHANGED <<inputs, resolver_vars, opens, pc, ret, idx, wg, sem, wpc, wret, released, openFiles, loaded>>

\* deploy: return fmt.Errorf("failed to upload file ..."); file.Close and wg.Done are deferred
DeployUploadFail(i) ==
    /\ wpc["deploy"][i] = "io" /\ Alive("deploy")
    /\ RemoteEnabled
    /\ fileState[i] = "remoteErr"
    /\ sent' = SetAt(sent, "deploy", i, Append(sent["deploy"][i], Request("deploy", i)))
    /\ wret' = SetAt(wret, "deploy", i, "err")
    /\ wpc' = SetAt(wpc, "deploy", i, "close")
    /\ UNCHANGED <<inputs, resolver_vars, opens, pc, ret, idx, wg, sem, released, openFiles, loaded>>

\* remove: log.Fatalf("failed to delete object, ...") exits the process
RemoveDeleteFail(i) ==
    /\ wpc["remove"][i] = "io" /\ Alive("remove")
    /\ RemoteEnabled
    /\ fileState[i] = "remoteErr"
    /\ sent' = SetAt(sent, "remove", i, Append(sent["remove"][i], Request("remove", i)))
    /\ wret' = SetAt(wret, "remove", i, "fatal")
    /\ ret' = Set(ret, "remove", "exit")
    /\ UNCHANGED <<inputs, resolver_vars, opens, pc, idx, wg, sem, wpc, released, openFiles, loaded>>

\* <-sem; return nil
Release(op, i) ==
    /\ wpc[op][i] = "release" /\ Alive(op)
    /\ sem[op] > 0
    /\ sem' = Set(sem, op, sem[op] - 1)
    /\ released' = SetAt(released, op, i, released[op][i] + 1)
    /\ wret' = SetAt(wret, op, i, "nil")
    /\ wpc' = SetAt(wpc, op, i, "close")
    /\ UNCHANGED <<inputs, resolver_vars, opens, pc, ret, idx, wg, openFiles, sent, loaded>>

\* the deferred file.Close()
Close(op, i) ==
    /\ wpc[op][i] = "close" /\ Alive(op)
    /\ openFiles' = Set(openFiles, op, openFiles[op] \ {i})
    /\ wpc' = SetAt(wpc, op, i, "wgdone")
    /\ UNCHANGED <<inputs, resolver_vars, opens, pc, ret, idx, wg, sem, wret, released, sent, loaded>>

\* the deferred wg.Done(); the goroutine ends
WgDone(op, i) ==
    /\ wpc[op][i] = "wgdone" /\ Alive(op)
    /\ wg' = Set(wg, op, wg[op] - 1)
    /\ wpc' = SetAt(wpc, op, i, "done")
    /\ UNCHANGED <<inputs, resolver_vars, opens, pc, ret, idx, sem, wret, released, openFiles, sent, loaded>>

\* --------------------------------------------------------- specifications
\* the state when the orchestrator calls the Run functions of the ops in `active`
InitWith(active, maxFiles) ==
    /\ MaxParallel \in MaxParallelChoices
    /\ Labels \in LabelChoices
    /\ Bucket \in BucketChoices
    /\ BucketPrefix \in BucketPrefixChoices
    /\ \E m \in 0..maxFiles :
          /\ Outs = [i \in 1..m |-> OutPath(i)]
          /\ fileState \in [1..m -> FileStates]
          /\ wpc = [op \in Ops |-> [i \in 1..m |-> "idle"]]
          /\ wret = [op \in Ops |-> [i \in 1..m |-> "none"]]
          /\ released = [op \in Ops |-> [i \in 1..m |-> 0]]
          /\ sent = [op \in Ops |-> [i \in 1..m |-> <<>>]]
          /\ opens = [op \in Ops |-> [i \in 1..m |-> 0]]
    /\ DryRun \in BOOLEAN
    /\ ctxVars \in VarChoices
    /\ awsOk \in BOOLEAN
    /\ pc = [op \in Ops |-> IF op \in active THEN "load" ELSE "off"]
    /\ ret = [op \in Ops |-> "none"]
    /\ idx = [op \in Ops |-> 1]
    /\ wg = [op \in Ops |-> 0]
    /\ sem = [op \in Ops |-> 0]
    /\ openFiles = [op \in Ops |-> {}]
    /\ loaded = [op \in Ops |-> [bucket |-> <<>>, prefix |-> <<>>]]

\* no override variable, no client built, customResolver not called
ResolverIdle == envEndpoint = <<>> /\ client = <<>> /\ resolved = <<>>

\* one invocation: deploy or remove
Init == ResolverIdle /\ \E op \in Ops : InitWith({op}, MaxFiles)

\* deploy and remove run side by side on the same inputs
MirrorInit == ResolverIdle /\ InitWith(Ops, MirrorFiles)

\* client := s3.NewFromConfig(cfg, func(o *s3.Options) { o.UsePathStyle = true })
NewClient ==
    /\ awsOk /\ client = <<>>
    /\ client' = << [UsePathStyle |-> TRUE] >>
    /\ UNCHANGED <<inputs, envEndpoint, resolved, vars_run>>

\* the SDK asks customResolver for the endpoint of (service, region)
ResolveCall(service, region) ==
    /\ awsOk /\ Len(resolved) < MaxCalls
    /\ resolved' = Append(resolved,
                          [service |-> service, region |-> region,
                           endpoint |-> customResolver(envEndpoint, service, region)])
    /\ UNCHANGED <<inputs, envEndpoint, client, vars_run>>

\* loadAwsConfig alone: the configuration loads, no Run function is running
ResolverInit ==
    /\ envEndpoint \in EndpointChoices
    /\ client = <<>>
    /\ resolved = <<>>
    /\ MaxParallel = <<>> /\ Labels = <<>> /\ BucketPrefix = <<>>
    /\ DryRun = FALSE /\ ctxVars = << <<"v">> >> /\ awsOk = TRUE
    /\ InitWith({}, 0)

ResolverNext ==
    \/ NewClient
    \/ \E service \in Services, region \in Regions : ResolveCall(service, region)

ResolverSpec == ResolverInit /\ [][ResolverNext]_vars

\* one step of the invocation of op: its Run function or one of its goroutines
OpStep(op) ==
    \/ LoadOk(op)
    \/ LoadFail(op)
    \/ MakeSem(op)
    \/ MakeSemPanic(op)
    \/ LoopAdd(op)
    \/ LoopEnd(op)
    \/ Acquire(op)
    \/ WaitReturn(op)
    \/ \E i \in Files : OpenOk(op, i)
    \/ \E i \in Files : op = "deploy" /\ DeployOpenFail(i)
    \/ \E i \in Files : op = "remove" /\ RemoveOpenFail(i)
    \/ \E i \in Files : SkipRemote(op, i)
    \/ \E i \in Files : RemoteOk(op, i)
    \/ \E i \in Files : op = "deploy" /\ DeployUploadFail(i)
    \/ \E i \in Files : op = "remove" /\ RemoveDeleteFail(i)
    \/ \E i \in Files : Release(op, i)
    \/ \E i \in Files : Close(op, i)
    \/ \E i \in Files : WgDone(op, i)

Next == \E op \in Ops : OpStep(op)

Spec == Init /\ [][Next]_vars

MirrorSpec == MirrorInit /\ [][Next]_vars


\* ------------------------------------------------------------------ claims
\* the workers of op that were dispatched and have not taken their token back
Executing(op) == {i \in Files : wpc[op][i] # "idle" /\ released[op][i] = 0}

\* the workers of op that are still running
Running(op) == {i \in Files : wpc[op][i] \notin {"idle", "done"}}

\* C1: for every limit N >= 1, in deploy and in remove, the number of workers
\* that were dispatched and have not yet released their permit never exceeds N.
C1_ConcurrencyBound ==
    \A op \in Ops : N >= 1 => Cardinality(Executing(op)) <= N

\* N workers hold a permit while the loop waits to acquire one more
C1_Witness ==
    \E op \in Ops :
        /\ N >= 1 /\ Len(Outs) > N
        /\ Cardinality(Executing(op)) = N
        /\ Cardinality(Running(op)) = N
        /\ pc[op] = "acquire"

\* C2: every permit acquired for a transfer is released exactly once when its
\* worker finishes, on success and on failure; when all dispatched workers have
\* finished the limiter holds no permit.
C2_PermitsReleased ==
    \A op \in Ops :
        /\ \A i \in Files : wpc[op][i] = "done" => released[op][i] = 1
        /\ Running(op) = {} => sem[op] = 0

\* C3: for N >= 1 and every failure pattern deploy dispatches all specs and
\* returns; it never blocks forever acquiring a permit: as long as deploy has
\* not returned, its Run function or one of its workers can take a step.
C3_DeployCompletes ==
    (pc["deploy"] # "off" /\ N >= 1) =>
        (pc["deploy"] = "returned" \/ ENABLED OpStep("deploy"))

\* C4: a Run function that has returned has no dispatched worker still running
\* (join), and with no outs it acquires no permit and dispatches no worker.
C4_JoinBeforeReturn ==
    \A op \in Ops :
        /\ pc[op] = "returned" => Running(op) = {}
        /\ (pc[op] = "returned" /\ ret[op] = "nil") =>
               \A i \in Files : wpc[op][i] = "done"
        /\ Len(Outs) = 0 => (sem[op] = 0 /\ wg[op] = 0 /\ pc[op] # "acquire")

\* deploy returned after its workers, all of them dispatched, were done
C4_Witness ==
    /\ pc["deploy"] = "returned" /\ ret["deploy"] = "nil"
    /\ Len(Outs) >= 2
    /\ \A i \in Files : wpc["deploy"][i] = "done"

\* C5: deploy returns an error whenever the worker of at least one spec ended
\* with an error (open or upload failed).
C5_DeployFailsOnError ==
    (pc["deploy"] = "returned" /\ \E i \in Files : wret["deploy"][i] = "err")
        => ret["deploy"] = "err"

\* C6: in remove a failing spec never terminates the process from within a
\* worker while other specs have not yet been executed.
C6_RemoveNoAbort ==
    ~(ret["remove"] = "exit" /\ \E i \in Files : wret["remove"][i] = "none")

\* C7: with the dry-run flag set neither deploy nor remove sends a request.
C7_DryRunNoNetwork ==
    DryRun => \A op \in Ops : \A i \in Files : sent[op][i] = <<>>

\* a dry run that went through the worker of every out and returned
C7_Witness ==
    \E op \in Ops :
        /\ DryRun /\ Len(Outs) >= 1
        /\ pc[op] = "returned" /\ ret[op] = "nil"
        /\ \A i \in Files : wpc[op][i] = "done"

\* C8: in dry-run mode every spec, whether or not its local file exists, ends
\* as a success and releases the one permit acquired for it.
C8_DryRunAllNoOp ==
    DryRun => \A op \in Ops : \A i \in Files :
        /\ wret[op][i] \in {"none", "nil"}
        /\ wpc[op][i] = "done" => released[op][i] = 1

\* C9: remove mirrors deploy run side by side on the same inputs: the same
\* bucket and keys with DeleteObject for PutObject, and the same overall result.
C9_RemoveMirrorsDeploy ==
    /\ \A i \in Files :
         \A d \in 1..Len(sent["deploy"][i]) : \A r \in 1..Len(sent["remove"][i]) :
            /\ sent["deploy"][i][d].key = sent["remove"][i][r].key
            /\ sent["deploy"][i][d].bucket = sent["remove"][i][r].bucket
            /\ sent["deploy"][i][d].verb = "PutObject"
            /\ sent["remove"][i][r].verb = "DeleteObject"
    /\ (ret["deploy"] # "none" /\ ret["remove"] # "none") => ret["deploy"] = ret["remove"]

\* C10: for a non-empty configured bucket_prefix, every key sent to the store
\* begins with the bucket_prefix resolved against the variable context.
C10_KeysUnderBucketPrefix ==
    BucketPrefix # <<>> =>
        \A op \in Ops : \A i \in Files : \A k \in 1..Len(sent[op][i]) :
            HasPrefix(sent[op][i][k].key, Interpolate(BucketPrefix, ctxVars).val)


\* the path of out i relative to the root target.Cwd, without a leading separator
RelPath(i) == [j \in 1..i |-> "f"]

\* C11: the key of a file is its path under the root joined onto the prefix
\* with '/': prefix + "/" + remainder for a non-empty prefix, and the remainder
\* without a leading separator for the empty prefix.
C11_KeyIsPrefixPlusRemainder ==
    \A op \in Ops : \A i \in Files : \A k \in 1..Len(sent[op][i]) :
        sent[op][i][k].key =
            IF loaded[op].prefix = <<>> THEN RelPath(i)
            ELSE loaded[op].prefix \o <<"/">> \o RelPath(i)

\* C12: with max_parallel < 1 and a non-empty file set, deploy and remove end
\* with an error before any transfer: no permit acquired, no worker dispatched,
\* no hang and no crash.
C12_InvalidMaxParallelIsAnError ==
    \A op \in Ops :
        (N < 1 /\ Len(Outs) >= 1 /\ pc[op] # "off") =>
            /\ ret[op] \in {"none", "err"}
            /\ sem[op] = 0
            /\ \A i \in Files : wpc[op][i] = "idle"
            /\ pc[op] = "returned" \/ ENABLED OpStep(op)

\* loading the client configuration fails, or a label loadAwsConfig reads holds
\* a placeholder the variable context cannot resolve
LoadMustFail ==
    \/ ~awsOk
    \/ /\ ctxVars = <<>>
       /\ \E n \in 1..Len(TargetLabels) :
             /\ HasPrefix(TargetLabels[n], ZenBucketEq) \/ HasPrefix(TargetLabels[n], ZenPrefixEq)
             /\ \E j \in 1..Len(TargetLabels[n]) : TargetLabels[n][j] = "$"

\* C13: when loading the client configuration or interpolating a bucket/prefix
\* template fails, deploy and remove return the error and the run acquires no
\* permit, dispatches no worker, opens no file and sends no request.
C13_LoadErrorsAreFatalFirst ==
    \A op \in Ops :
        (LoadMustFail /\ pc[op] # "off") =>
            /\ pc[op] \in {"load", "returned"}
            /\ pc[op] = "returned" => ret[op] = "err"
            /\ sem[op] = 0 /\ wg[op] = 0 /\ openFiles[op] = {}
            /\ \A i \in Files : wpc[op][i] = "idle" /\ sent[op][i] = <<>>

\* an invocation over outs returned the error of a template that did not resolve
C13_Witness ==
    \E op \in Ops :
        /\ awsOk /\ ctxVars = <<>> /\ Len(Outs) >= 1
        /\ pc[op] = "returned" /\ ret[op] = "err"

\* C17: for a spec whose local file cannot be opened no request is ever sent
\* for its key, and the spec is never reported as a success.
C17_MissingFileIsHardError ==
    \A op \in Ops : \A i \in Files :
        fileState[i] = "missing" => (sent[op][i] = <<>> /\ wret[op][i] # "nil")

\* the worker of a missing file ended with an error in a real run while the
\* worker of another file sent its request
C17_Witness ==
    \E i \in Files, j \in Files :
        /\ ~DryRun /\ fileState[i] = "missing"
        /\ wret["deploy"][i] = "err" /\ wpc["deploy"][i] = "done"
        /\ sent["deploy"][j] # <<>>

\* C19: the bucket deploy and remove address is the interpolation of the
\* configured bucket field, whatever labels the user put on the target.
C19_BucketIsConfiguredBucket ==
    \A op \in Ops :
        /\ pc[op] \notin {"off", "load", "returned"} =>
               loaded[op].bucket = Interpolate(Bucket, ctxVars).val
        /\ \A i \in Files : \A k \in 1..Len(sent[op][i]) :
               sent[op][i][k].bucket = Interpolate(Bucket, ctxVars).val

\* a request was sent although the user put a zen_bucket=... label on the target
C19_Witness ==
    /\ \E n \in 1..Len(Labels) : HasPrefix(Labels[n], ZenBucketEq)
    /\ \E op \in Ops : \E i \in Files : sent[op][i] # <<>>


\* C16: nothing is retried: within one invocation the local file of a spec is
\* opened at most once and its request is sent at most once, also after the
\* request failed.
C16_NoRetry ==
    \A op \in Ops : \A i \in Files :
        opens[op][i] <= 1 /\ Len(sent[op][i]) <= 1

\* the worker of an upload that failed has ended after one open and one request
C16_Witness ==
    \E i \in Files :
        /\ fileState[i] = "remoteErr" /\ wpc["deploy"][i] = "done"
        /\ opens["deploy"][i] = 1 /\ Len(sent["deploy"][i]) = 1


\* the outs whose file is open in a worker that has not yet released its permit
OpenUnderPermit(op) == {i \in openFiles[op] : released[op][i] = 0}

\* C18 as stated: the number of local files open at the same instant never
\* exceeds the limit N.
C18_OpenFilesWithinLimit ==
    \A op \in Ops : N >= 1 => Cardinality(openFiles[op]) <= N

\* C18 as amended: the number of local files held open by workers that have
\* not yet released their permit never exceeds N; a file is closed only after
\* its permit was released, so the files open in total may exceed N.
C18_OpenFilesUnderPermitWithinLimit ==
    \A op \in Ops : N >= 1 => Cardinality(OpenUnderPermit(op)) <= N

\* N files are open under a permit while one more is still open in a worker
\* that has released its permit
C18_Witness ==
    \E op \in Ops :
        /\ N >= 1
        /\ Cardinality(OpenUnderPermit(op)) = N
        /\ Cardinality(openFiles[op]) > N


\* the endpoint the claim expects: the override when present, else the default
ExpectedURL == IF envEndpoint # <<>> THEN envEndpoint[1] ELSE DefaultEndpoint

\* C14 as stated: whatever region the S3 client resolves, the service URL is
\* the value of AWS_S3_ENDPOINT when present and the fixed default when absent,
\* and path-style addressing is on.
C14_EndpointIsOverrideOrDefault ==
    /\ client # <<>> => client[1].UsePathStyle
    /\ \A k \in 1..Len(resolved) :
          resolved[k].service = S3ServiceID =>
              (resolved[k].endpoint.err = "none" /\ resolved[k].endpoint.URL = ExpectedURL)

\* C14 as amended: for the pair (S3, eu-central-1) the service URL is the value
\* of AWS_S3_ENDPOINT when present and the fixed default when absent; path-style
\* addressing is on in every client.
C14_EndpointForDefaultRegion ==
    /\ client # <<>> => client[1].UsePathStyle
    /\ \A k \in 1..Len(resolved) :
          (resolved[k].service = S3ServiceID /\ resolved[k].region = "eu-central-1") =>
              /\ resolved[k].endpoint.err = "none"
              /\ resolved[k].endpoint.URL = ExpectedURL
              /\ resolved[k].endpoint.SigningRegion = "eu-central-1"

\* the client is built and (S3, eu-central-1) was resolved with the override set
C14_Witness ==
    /\ client # <<>>
    /\ envEndpoint = <<"http://localhost:9000">>
    /\ \E k \in 1..Len(resolved) :
          resolved[k].service = S3ServiceID /\ resolved[k].region = "eu-central-1"

\* C15: for every (service, region) other than (S3, eu-central-1) the resolver
\* returns the endpoint-not-found signal and no custom endpoint, whether or not
\* the override variable is set.
C15_OtherPairsNotFound ==
    \A k \in 1..Len(resolved) :
        ~(resolved[k].service = S3ServiceID /\ resolved[k].region = "eu-central-1") =>
            /\ resolved[k].endpoint.err = "EndpointNotFoundError"
            /\ resolved[k].endpoint.URL = ""

\* S3 was resolved for another region with the override set
C15_Witness ==
    /\ envEndpoint = <<"http://localhost:9000">>
    /\ \E k \in 1..Len(resolved) :
          resolved[k].service = S3ServiceID /\ resolved[k].region = "us-east-1"

====
